---- MODULE Spec2Model ----
(***************************************************************************)
(* A model of PluginLoader (source/index.ts revision of src/source/index.js,*)
(* lines 313-655): the constructor's stages, resolve, validate, error and   *)
(* create.                                                                  *)
(*                                                                          *)
(* Strings are sequences of one-character strings; the literal pieces of a  *)
(* template string are single tokens, so a rendered message is the          *)
(* concatenation of its pieces and "the message cites s" is "s occurs in    *)
(* it as a contiguous run".  An optional value (undefined or a value) is    *)
(* the empty sequence or a one-element sequence.                            *)
(***************************************************************************)
EXTENDS Integers, Sequences, FiniteSets, TLC

VARIABLES
    pc,             \* position in the constructor / lifetime of the loader
    log,            \* the calls made to this.log, in order
    keyword,        \* this.keyword
    prefix,         \* this.prefix
    versions,       \* this.versions
    pluginPath,     \* this.pluginPath
    packageData,    \* this.packageData
    pluginName,     \* this.pluginName
    PluginClass,    \* this.PluginClass
    thrown,         \* what the constructor threw, if it threw
    manifestLoads,  \* the paths require() was given for the manifest
    moduleLoads,    \* the arguments require() was given for the module
    invocations,    \* the calls made to a candidate as a function
    shapeTests,     \* the values isClass was applied to, in order
    created,        \* the outcome of each create() call, in order
    stages,         \* the stages of the constructor that have run, in order
    optsPackageData, \* opts.packageData as the caller supplied it
    optsPluginClass, \* opts.PluginClass as the caller supplied it
    given,          \* the candidate handed to resolve(), once obtained
    platform,       \* process.platform as validate() read it
    processVersions, \* process.versions as validate() read it
    errors,         \* the errors array of validate(), once it has run
    rangeChecks,    \* the calls made to satisfies(), in order
    constructions,  \* the calls `new PluginClass(...args)` made by create()
    calls           \* the argument lists given to create(), call by call

vars == <<pc, log, keyword, prefix, versions, pluginPath, packageData,
          pluginName, PluginClass, thrown, manifestLoads, moduleLoads,
          invocations, shapeTests, created, stages, optsPackageData,
          optsPluginClass, given, platform, processVersions, errors,
          rangeChecks, constructions, calls>>

----------------------------------------------------------------------------
(* Bounds of the model.  Throughout, a definition named after another with *)
(* a suffix saying what it gets wrong (substrDropsOneMore for substr) is a  *)
(* faulty variant of it, kept to show that the properties tell the two      *)
(* apart.                                                                   *)

MaxNameLen == 2
MaxPrefixLen == 1
MaxCreates == 2
MaxVersionLen == 3

----------------------------------------------------------------------------
(* Optional values and JavaScript truthiness *)

None == <<>>
Some(x) == <<x>>

\* !s for an optional string: undefined and "" are both falsy
Falsy(s) == s = None \/ s[1] = <<>>

\* `${s}` for an optional string
Render(s) == IF s = None THEN <<"undefined">> ELSE s[1]

\* a || b for optional strings
OrElse(a, b) == IF Falsy(a) THEN b ELSE a

----------------------------------------------------------------------------
(* String primitives *)

\* sub occurs in s starting at (1-based) position i
OccursAt(s, sub, i) ==
    /\ i >= 1
    /\ i + Len(sub) - 1 <= Len(s)
    /\ \A k \in 1..Len(sub) : s[i + k - 1] = sub[k]

\* String.prototype.indexOf: the 0-based index of the first occurrence, or -1
indexOf(s, sub) ==
    IF \E i \in 1..(Len(s) + 1) : OccursAt(s, sub, i)
    THEN (CHOOSE i \in 1..(Len(s) + 1) :
            /\ OccursAt(s, sub, i)
            /\ \A j \in 1..(i - 1) : ~OccursAt(s, sub, j)) - 1
    ELSE -1

\* String.prototype.substr(start) with 0 <= start
substrDropsOneMore(s, start) == SubSeq(s, start + 2, Len(s))
substr(s, start) == SubSeq(s, start + 1, Len(s))

LowerCase == {"a", "b", "z"}
UpperCase == {"A", "B", "X"}
Digits == {"0", "1", "9"}

\* const alphanumeric = /^[a-z0-9]+$/ ; alphanumeric.test(s)
alphanumericFoldsCase(s) ==
    Len(s) >= 1 /\ \A i \in 1..Len(s) : s[i] \in LowerCase \cup UpperCase \cup Digits
alphanumeric(s) ==
    Len(s) >= 1 /\ \A i \in 1..Len(s) : s[i] \in LowerCase \cup Digits

----------------------------------------------------------------------------
(* Errors *)

\* new Errlop(message, parent): parent is optional
Errlop(message, parent) == [message |-> message, parent |-> parent]

\* PluginLoader.error(message, parent)
errorDropsParent(message, parent, path, name) ==
    Errlop(message \o <<"\nPlugin: ">> \o Render(OrElse(path, Some(name))), None)
error(message, parent, path, name) ==
    Errlop(message \o <<"\nPlugin: ">> \o Render(OrElse(path, Some(name))), parent)

----------------------------------------------------------------------------
(* Outcomes of calls into code the loader does not own *)

Return(v) == [type |-> "return", value |-> Some(v), err |-> None]
Throw(e) == [type |-> "throw", value |-> None, err |-> Some(e)]

\* an error raised by the runtime or by plugin code: a message, no parent
RawError(message) == Errlop(message, None)

----------------------------------------------------------------------------
(* The constructor, stage by stage.  Each stage is a function from what it  *)
(* reads to what it throws and what it writes.                              *)

MsgNoSource ==
    <<"Either the plugin's package data or the plugin's path must be specified.">>
MsgNoName ==
    <<"The plugin's package data must include a \"name\" field.">>

\* resolve(this.pluginPath, 'package.json')
ManifestPath(path) == path \o <<"/package.json">>

\* // load: lines 442-453.  optsData is opts.packageData, manifest is
\* what require() of the manifest path does (return the data or throw).
loadReadsManifestFirst(optsData, path, manifest) ==
    IF Falsy(path)
    THEN [threw |-> Some(Errlop(MsgNoSource, None)),
          packageData |-> None, manifestLoads |-> <<Render(path)>>]
    ELSE IF manifest.type = "throw"
         THEN [threw |-> manifest.err, packageData |-> None,
               manifestLoads |-> <<ManifestPath(path[1])>>]
         ELSE [threw |-> None,
               packageData |-> IF optsData = None
                               THEN manifest.value ELSE optsData,
               manifestLoads |-> <<ManifestPath(path[1])>>]
load(optsData, path, manifest) ==
    IF optsData = None
    THEN IF ~Falsy(path)
         THEN IF manifest.type = "throw"
              THEN [threw |-> manifest.err, packageData |-> None,
                    manifestLoads |-> <<ManifestPath(path[1])>>]
              ELSE [threw |-> None, packageData |-> manifest.value,
                    manifestLoads |-> <<ManifestPath(path[1])>>]
         ELSE [threw |-> Some(Errlop(MsgNoSource, None)),
               packageData |-> None, manifestLoads |-> <<>>]
    ELSE [threw |-> None, packageData |-> optsData,
          manifestLoads |-> <<>>]

\* // validate: lines 455-460
validateNameFieldAcceptsEmpty(data) ==
    IF data.name = None THEN Some(Errlop(MsgNoName, None)) ELSE None
validateNameField(data) ==
    IF Falsy(data.name) THEN Some(Errlop(MsgNoName, None)) ELSE None

\* // ensure: lines 462-467
ensureResetsCollections(data) ==
    [name |-> data.name, keywords |-> Some(<<>>), platforms |-> Some(<<>>),
     engines |-> Some(<<>>), peerDependencies |-> Some(<<>>)]
ensure(data) ==
    [name |-> data.name,
     keywords |-> IF data.keywords = None THEN Some(<<>>) ELSE data.keywords,
     platforms |-> IF data.platforms = None THEN Some(<<>>) ELSE data.platforms,
     engines |-> IF data.engines = None THEN Some(<<>>) ELSE data.engines,
     peerDependencies |-> IF data.peerDependencies = None
                          THEN Some(<<>>) ELSE data.peerDependencies]

MsgPrefixOmitsPrefix(name, pfx) ==
    <<"The plugin's name of [">> \o name
        \o <<"] must begin with the prefix [">> \o <<"].">>
MsgPrefix(name, pfx) ==
    <<"The plugin's name of [">> \o name
        \o <<"] must begin with the prefix [">> \o pfx \o <<"].">>
MsgAlphanumeric(name) ==
    <<"The plugin's name of [">> \o name
        \o <<"] must be alphanumeric to avoid common naming problems.">>

\* // apply and // validate: lines 469-487.  rawName is packageData.name.
applyName(rawName, pfx) ==
    LET stripped ==
            IF ~Falsy(pfx) /\ indexOf(rawName, pfx[1]) = 0
            THEN substr(rawName, Len(pfx[1]))
            ELSE rawName
    IN  IF ~Falsy(pfx) /\ indexOf(rawName, pfx[1]) # 0
        THEN [threw |-> Some(Errlop(MsgPrefix(rawName, Render(pfx)), None)),
              pluginName |-> rawName]
        ELSE IF ~alphanumeric(stripped)
             THEN [threw |-> Some(Errlop(MsgAlphanumeric(stripped), None)),
                   pluginName |-> stripped]
             ELSE [threw |-> None, pluginName |-> stripped]

----------------------------------------------------------------------------
(* Candidate values: what a plugin module may export, what opts.PluginClass *)
(* may be, and what a resolver function may return.                         *)
(*   kind       "class" (a native class), "function" (any other callable),  *)
(*              "object" (not callable)                                     *)
(*   shape      what the shape test isClass answers for the value           *)
(*   cname      the value's name, as the runtime prints it                  *)
(*   ident      the name its instances expose, if any                       *)
(*   ctorThrows whether constructing it throws                              *)
(*   outcome    for a function: what calling it does                        *)

Value(kind, shape, cname, ident, ctorThrows, outcome) ==
    [kind |-> kind, shape |-> shape, cname |-> cname, ident |-> ident,
     ctorThrows |-> ctorThrows, outcome |-> outcome]

\* import { isClass } from 'typechecker'
isClass(v) == v.shape

WordChars == LowerCase \cup UpperCase \cup Digits \cup {"_"}

TokClassConstructor == "Class constructor "
TokCannotBeInvoked == " cannot be invoked without 'new'"

\* the TypeError the runtime raises when a native class is called without new
ClassConstructorMsg(cname) ==
    <<TokClassConstructor>> \o cname \o <<TokCannotBeInvoked>>
MsgNotAFunction == <<"direct is not a function">>

\* /Class constructor \w+ cannot be invoked without 'new'/.test(message)
falseNegativeTestMatchesNone(message) == FALSE
falseNegativeTestMatchesAny(message) == TRUE
falseNegativeTest(message) ==
    \E i \in 1..Len(message) : \E j \in (i + 2)..Len(message) :
        /\ message[i] = TokClassConstructor
        /\ message[j] = TokCannotBeInvoked
        /\ \A k \in (i + 1)..(j - 1) : message[k] \in WordChars

\* direct(this.BasePlugin): what calling the value as a function does
Call(v) ==
    CASE v.kind = "function" -> v.outcome[1]
      [] v.kind = "class" -> Throw(RawError(ClassConstructorMsg(v.cname)))
      [] OTHER -> Throw(RawError(MsgNotAFunction))

BasePlugin == "BasePlugin"

MsgFalseNegative(v) ==
    <<"pluginloader encountered a direct result that had a false negative with class detection\n",
      "everything will work fine, but this should be fixed by the plugin author\n",
      "the direct result in question is:\n">> \o <<"[source of ">> \o v.cname \o <<"]">>
MsgIndirectFailed == <<"The indirect resolution of the PluginClass failed.">>
MsgNotDetectable == <<"The resolved PluginClass was not detectable as a class.">>
LogDirect(path) ==
    <<"The plugin [">> \o Render(path) \o <<"] was resolved directly">>
LogFallback(path) ==
    <<"The plugin [">> \o Render(path)
        \o <<"] was resolved directly, via false negative fallback">>
LogIndirect(path) ==
    <<"The plugin [">> \o Render(path) \o <<"] was resolved indirectly">>

LogEntry(level, text) == [level |-> level, text |-> text]
Invocation(fn, args, outcome) == [fn |-> fn, args |-> args, outcome |-> outcome]

\* PluginLoader.resolve(direct): lines 513-565.  The result says what was
\* thrown or returned, what was logged, which calls were made to the
\* candidate and which values were shape-tested.
resolveInvokesFirst(direct, path, name) ==
    LET r == Call(direct)
    IN  IF isClass(direct)
        THEN [threw |-> None, value |-> Some(direct),
              log |-> <<LogEntry("debug", LogDirect(path))>>,
              invocations |-> <<Invocation(direct, <<BasePlugin>>, Call(direct))>>,
              shapeTests |-> <<direct>>]
        ELSE [threw |-> Some(error(MsgNotDetectable, None, path, name)),
              value |-> None, log |-> <<>>,
              invocations |-> <<Invocation(direct, <<BasePlugin>>, Call(direct))>>,
              shapeTests |-> <<direct>>]
resolveRejectsResolvers(direct, path, name) ==
    IF isClass(direct)
    THEN [threw |-> None, value |-> Some(direct),
          log |-> <<LogEntry("debug", LogDirect(path))>>,
          invocations |-> <<>>, shapeTests |-> <<direct>>]
    ELSE [threw |-> Some(error(MsgNotDetectable, None, path, name)),
          value |-> None, log |-> <<>>,
          invocations |-> <<>>, shapeTests |-> <<direct>>]
resolveReturnsCandidate(direct, path, name) ==
    IF isClass(direct)
    THEN [threw |-> None, value |-> Some(direct),
          log |-> <<LogEntry("debug", LogDirect(path))>>,
          invocations |-> <<>>, shapeTests |-> <<direct>>]
    ELSE [threw |-> None, value |-> Some(direct),
          log |-> <<LogEntry("debug", LogIndirect(path))>>,
          invocations |-> <<Invocation(direct, <<BasePlugin>>, Call(direct))>>,
          shapeTests |-> <<direct>>]
resolveStoresIndirect(direct, path, name) ==
    IF isClass(direct)
    THEN [threw |-> None, value |-> Some(direct),
          log |-> <<LogEntry("debug", LogDirect(path))>>,
          invocations |-> <<>>, shapeTests |-> <<direct>>]
    ELSE LET r == Call(direct)
             called == <<Invocation(direct, <<BasePlugin>>, r)>>
         IN  IF r.type = "throw"
             THEN IF falseNegativeTest(r.err[1].message)
                  THEN [threw |-> None, value |-> Some(direct),
                        log |-> <<LogEntry("warn",
                                    error(MsgFalseNegative(direct), None,
                                          path, name).message),
                                  LogEntry("debug", LogFallback(path))>>,
                        invocations |-> called, shapeTests |-> <<direct>>]
                  ELSE [threw |-> Some(error(MsgIndirectFailed, r.err,
                                             path, name)),
                        value |-> None, log |-> <<>>,
                        invocations |-> called, shapeTests |-> <<direct>>]
             ELSE [threw |-> None, value |-> r.value,
                   log |-> <<LogEntry("debug", LogIndirect(path))>>,
                   invocations |-> called, shapeTests |-> <<direct>>]
resolve(direct, path, name) ==
    IF isClass(direct)
    THEN [threw |-> None, value |-> Some(direct),
          log |-> <<LogEntry("debug", LogDirect(path))>>,
          invocations |-> <<>>, shapeTests |-> <<direct>>]
    ELSE LET r == Call(direct)
             called == <<Invocation(direct, <<BasePlugin>>, r)>>
         IN  IF r.type = "throw"
             THEN IF falseNegativeTest(r.err[1].message)
                  THEN [threw |-> None, value |-> Some(direct),
                        log |-> <<LogEntry("warn",
                                    error(MsgFalseNegative(direct), None,
                                          path, name).message),
                                  LogEntry("debug", LogFallback(path))>>,
                        invocations |-> called, shapeTests |-> <<direct>>]
                  ELSE [threw |-> Some(error(MsgIndirectFailed, r.err,
                                             path, name)),
                        value |-> None, log |-> <<>>,
                        invocations |-> called, shapeTests |-> <<direct>>]
             ELSE LET indirect == r.value[1]
                  IN  IF isClass(indirect)
                      THEN [threw |-> None, value |-> Some(indirect),
                            log |-> <<LogEntry("debug", LogIndirect(path))>>,
                            invocations |-> called,
                            shapeTests |-> <<direct, indirect>>]
                      ELSE [threw |-> Some(error(MsgNotDetectable, None,
                                                 path, name)),
                            value |-> None, log |-> <<>>,
                            invocations |-> called,
                            shapeTests |-> <<direct, indirect>>]

MsgRequireArg ==
    <<"The \"id\" argument must be a non-empty string.">>

\* opts.PluginClass || require(this.pluginPath): lines 494-496.  module is
\* what require() of a usable path does; require() of undefined or of ''
\* throws a TypeError of the runtime.
candidateLoadsModule(optsClass, path, module) ==
    IF Falsy(path)
    THEN IF optsClass # None
         THEN [outcome |-> Return(optsClass[1]), moduleLoads |-> <<path>>]
         ELSE [outcome |-> Throw(RawError(MsgRequireArg)),
               moduleLoads |-> <<path>>]
    ELSE [outcome |-> IF optsClass # None THEN Return(optsClass[1]) ELSE module,
          moduleLoads |-> <<path>>]
candidate(optsClass, path, module) ==
    IF optsClass # None
    THEN [outcome |-> Return(optsClass[1]), moduleLoads |-> <<>>]
    ELSE IF Falsy(path)
         THEN [outcome |-> Throw(RawError(MsgRequireArg)),
               moduleLoads |-> <<path>>]
         ELSE [outcome |-> module, moduleLoads |-> <<path>>]

----------------------------------------------------------------------------
(* Compatibility validation *)

\* Array.prototype.join
RECURSIVE join(_, _)
join(parts, sep) ==
    IF parts = <<>> THEN <<>>
    ELSE IF Len(parts) = 1 THEN parts[1]
    ELSE parts[1] \o sep \o join(Tail(parts), sep)

\* Array.prototype.includes
includes(list, x) == \E i \in 1..Len(list) : list[i] = x

\* version.replace(/-.+/, ''): from the first '-' that has a character after
\* it to the end of the string
stripFlag(version) ==
    IF \E i \in 1..(Len(version) - 1) : version[i] = "-"
    THEN SubSeq(version, 1,
                (CHOOSE i \in 1..(Len(version) - 1) :
                    /\ version[i] = "-"
                    /\ \A j \in 1..(i - 1) : version[j] # "-") - 1)
    ELSE version

\* import { satisfies } from 'semver', for versions of one numeric component
\* and ranges <<op, n>>: anything that is not such a version satisfies nothing
VersionDigits == {"1", "2", "3"}
Numeral(d) == CASE d = "1" -> 1 [] d = "2" -> 2 [] OTHER -> 3
satisfies(version, range) ==
    /\ Len(version) = 1
    /\ version[1] \in VersionDigits
    /\ Len(range) = 2
    /\ \/ range[1] = ">=" /\ Numeral(version[1]) >= Numeral(range[2])
       \/ range[1] = "=" /\ Numeral(version[1]) = Numeral(range[2])

\* the order in which `for (const thing in versions)` visits the keys
ThingOrder == <<"node", "v8", "host", "lib">>

MsgVersion(group, thing, range) ==
    <<group, " [", thing, " = ">> \o range
        \o <<"] unsupported by plugin's range [">> \o range \o <<"]">>

\* checkVersions(versions, ranges, group): lines 351-370
RECURSIVE checkVersionsFromDeclared(_, _, _, _)
checkVersionsFromDeclared(i, actual, ranges, group) ==
    IF i > Len(ThingOrder) THEN <<>>
    ELSE LET thing == ThingOrder[i]
             rest == checkVersionsFromDeclared(i + 1, actual, ranges, group)
         IN  IF /\ thing \in DOMAIN ranges
                /\ ranges[thing] # <<>>
                /\ \/ thing \notin DOMAIN actual
                   \/ ~satisfies(stripFlag(actual[thing]), ranges[thing])
             THEN <<Errlop(MsgVersion(group, thing, ranges[thing]), None)>>
                      \o rest
             ELSE rest
RECURSIVE checkVersionsFrom(_, _, _, _)
checkVersionsFrom(i, actual, ranges, group) ==
    IF i > Len(ThingOrder) THEN <<>>
    ELSE LET thing == ThingOrder[i]
             rest == checkVersionsFrom(i + 1, actual, ranges, group)
         IN  IF /\ thing \in DOMAIN actual
                /\ thing \in DOMAIN ranges
                /\ ranges[thing] # <<>>
                /\ ~satisfies(stripFlag(actual[thing]), ranges[thing])
             THEN <<Errlop(MsgVersion(group, thing, ranges[thing]), None)>>
                      \o rest
             ELSE rest
checkVersions(actual, ranges, group) ==
    IF ranges = None THEN <<>>
    ELSE checkVersionsFrom(1, actual, ranges[1], group)

\* the calls checkVersions makes to satisfies(), in order: line 359.  A
\* falsy range short-circuits the call.
RangeCheck(group, thing, actual, version, range) ==
    [group |-> group, thing |-> thing, actual |-> actual,
     version |-> version, range |-> range]

RECURSIVE rangeChecksFrom(_, _, _, _)
rangeChecksFrom(i, actual, ranges, group) ==
    IF i > Len(ThingOrder) THEN <<>>
    ELSE LET thing == ThingOrder[i]
             rest == rangeChecksFrom(i + 1, actual, ranges, group)
         IN  IF /\ thing \in DOMAIN actual
                /\ thing \in DOMAIN ranges
                /\ ranges[thing] # <<>>
             THEN <<RangeCheck(group, thing, actual[thing],
                               stripFlag(actual[thing]), ranges[thing])>>
                      \o rest
             ELSE rest
rangeChecksOf(actual, ranges, group) ==
    IF ranges = None THEN <<>>
    ELSE rangeChecksFrom(1, actual, ranges[1], group)

\* Errlop's stack of an error: its own text, then its parent's
RECURSIVE stack(_)
stack(e) ==
    <<"Error: ">> \o e.message \o <<"\n    at <frames>">>
        \o (IF e.parent = None THEN <<>> ELSE <<"\n-> ">> \o stack(e.parent[1]))

RECURSIVE stacks(_)
stacks(list) ==
    IF list = <<>> THEN <<>> ELSE <<stack(list[1])>> \o stacks(Tail(list))

MsgKeywordCitesFirst(kw, keywords) ==
    <<"keyword [">> \o kw \o <<"] missing from the plugin's keywords [">>
        \o (IF keywords = <<>> THEN <<>> ELSE keywords[1]) \o <<"]">>
MsgKeyword(kw, keywords) ==
    <<"keyword [">> \o kw \o <<"] missing from the plugin's keywords [">>
        \o join(keywords, <<", ">>) \o <<"]">>
MsgPlatform(current, platforms) ==
    <<"platform [">> \o current \o <<"] unsupported by plugin's engines [">>
        \o join(platforms, <<", ">>) \o <<"]">>
MsgUnsupported(path) == <<"Plugin [">> \o Render(path) \o <<"] is unsupported.">>

\* the violations validate() collects, in order: lines 573-602
violationsChecksEmptyPlatforms(data, kw, current, runtime, vs) ==
    (IF ~Falsy(kw) /\ ~includes(data.keywords[1], kw[1])
     THEN <<Errlop(MsgKeyword(kw[1], data.keywords[1]), None)>> ELSE <<>>)
    \o (IF ~includes(data.platforms[1], current)
        THEN <<Errlop(MsgPlatform(current, data.platforms[1]), None)>>
        ELSE <<>>)
    \o checkVersions(runtime, data.engines, "engine")
    \o checkVersions(vs, data.peerDependencies, "peer dependency")
violations(data, kw, current, runtime, vs) ==
    (IF ~Falsy(kw) /\ ~includes(data.keywords[1], kw[1])
     THEN <<Errlop(MsgKeyword(kw[1], data.keywords[1]), None)>> ELSE <<>>)
    \o (IF Len(data.platforms[1]) # 0 /\ ~includes(data.platforms[1], current)
        THEN <<Errlop(MsgPlatform(current, data.platforms[1]), None)>>
        ELSE <<>>)
    \o checkVersions(runtime, data.engines, "engine")
    \o checkVersions(vs, data.peerDependencies, "peer dependency")

\* PluginLoader.validate(): lines 572-614; what it throws, if anything
validateNeverThrows(data, kw, current, runtime, vs, path) == None
validateReportsFirst(data, kw, current, runtime, vs, path) ==
    LET found == violations(data, kw, current, runtime, vs)
    IN  IF Len(found) # 0
        THEN Some(Errlop(MsgUnsupported(path), Some(found[1])))
        ELSE None
validate(data, kw, current, runtime, vs, path) ==
    LET found == violations(data, kw, current, runtime, vs)
    IN  IF Len(found) # 0
        THEN Some(Errlop(MsgUnsupported(path),
                         IF Len(found) = 1 THEN Some(found[1])
                         ELSE Some(Errlop(join(stacks(found), <<"\n">>),
                                          None))))
        ELSE None

----------------------------------------------------------------------------
(* Instantiation *)

Instance(name, args, class) == [name |-> name, args |-> args, class |-> class]

\* one evaluation of `new PluginClass(...args)`: line 636
Construction(class, args, outcome) ==
    [class |-> class, args |-> args, outcome |-> outcome]

MsgCtorFailed == <<"the plugin's constructor failed">>
MsgNotAConstructor == <<"PluginClass is not a constructor">>

\* new PluginClass(...args); a constructor that throws is one that rejects an
\* empty argument list
New(v, args) ==
    CASE v.ctorThrows /\ args = <<>> -> Throw(RawError(MsgCtorFailed))
      [] v.kind = "class" \/ (v.kind = "function" /\ v.shape) ->
            Return(Instance(v.ident, args, v.cname))
      [] v.kind = "function" ->
            IF v.outcome[1].type = "throw" THEN v.outcome[1]
            ELSE LET got == v.outcome[1].value[1]
                 IN  Return(Instance(IF got.kind = "object" THEN None
                                     ELSE Some(got.cname), args, got.cname))
      [] OTHER -> Throw(RawError(MsgNotAConstructor))

MsgNameMismatch(instanceName, name) ==
    <<"The plugin instance's \"name\" of [">> \o instanceName
        \o <<"] must match the specified name of [">> \o name \o <<"].">>
MsgInstantiateShowsPath(path, name) ==
    <<"Plugin [">> \o Render(path) \o <<"] failed to instantiate.">>
MsgInstantiate(path, name) ==
    <<"Plugin [">> \o Render(OrElse(path, Some(name)))
        \o <<"] failed to instantiate.">>

\* PluginLoader.create(...args): lines 630-654
createAcceptsAnyName(class, args, path, name) ==
    LET made == New(class, args)
    IN  IF made.type = "throw"
        THEN Throw(Errlop(MsgInstantiate(path, name), made.err))
        ELSE Return(made.value[1])
createFillsName(class, args, path, name) ==
    LET made == New(class, args)
    IN  IF made.type = "throw"
        THEN Throw(Errlop(MsgInstantiate(path, name), made.err))
        ELSE LET plugin == made.value[1]
             IN  IF ~Falsy(plugin.name) /\ plugin.name[1] # name
                 THEN Throw(Errlop(MsgInstantiate(path, name),
                        Some(RawError(MsgNameMismatch(plugin.name[1], name)))))
                 ELSE IF Falsy(plugin.name)
                      THEN Return([plugin EXCEPT !.name = Some(name)])
                      ELSE Return(plugin)
createRethrows(class, args, path, name) ==
    LET made == New(class, args)
    IN  IF made.type = "throw"
        THEN made
        ELSE LET plugin == made.value[1]
             IN  IF ~Falsy(plugin.name) /\ plugin.name[1] # name
                 THEN Throw(Errlop(MsgInstantiate(path, name),
                        Some(RawError(MsgNameMismatch(plugin.name[1], name)))))
                 ELSE Return(plugin)
create(class, args, path, name) ==
    LET made == New(class, args)
    IN  IF made.type = "throw"
        THEN Throw(Errlop(MsgInstantiate(path, name), made.err))
        ELSE LET plugin == made.value[1]
             IN  IF ~Falsy(plugin.name) /\ plugin.name[1] # name
                 THEN Throw(Errlop(MsgInstantiate(path, name),
                        Some(RawError(MsgNameMismatch(plugin.name[1], name)))))
                 ELSE Return(plugin)

----------------------------------------------------------------------------
(* The inputs the actions draw from *)

Strings(chars, n) == UNION {[1..k -> chars] : k \in 0..n}

NameChars == {"a", "0", "A", "-"}
PrefixChars == {"a", "-"}

RawNames == {None} \cup {Some(s) : s \in Strings(NameChars, MaxNameLen)}
Prefixes == {None} \cup {Some(s) : s \in Strings(PrefixChars, MaxPrefixLen)}
Paths == {None, Some(<<>>), Some(<<"/plugins/p">>)}
Keywords == {None, Some(<<"plugin">>)}
VersionMaps == {<<>>, [host \in {"host"} |-> <<"1">>]}
Platforms == {<<"linux">>, <<"win32">>}
ProcessVersions == {[node \in {"node"} |-> <<"2", "-", "r">>]}

\* the optional fields of a manifest: all absent, or all present
Collections ==
    {[keywords |-> None, platforms |-> None, engines |-> None,
      peerDependencies |-> None],
     [keywords |-> Some(<<<<"plugin">>>>), platforms |-> Some(<<<<"linux">>>>),
      engines |-> Some([node \in {"node"} |-> <<">=", "1">>]),
      peerDependencies |-> Some([host \in {"host"} |-> <<">=", "2">>])]}

PackageData(name, c) ==
    [name |-> name, keywords |-> c.keywords, platforms |-> c.platforms,
     engines |-> c.engines, peerDependencies |-> c.peerDependencies]

PackageDatas == {PackageData(n, c) : n \in RawNames, c \in Collections}

MsgCannotFindModule == <<"Cannot find module">>

\* what require() of the manifest path may do
Manifests ==
    {Return(PackageData(n, c)) :
        n \in {None, Some(<<"a", "0">>), Some(<<"-", "a">>)}, c \in Collections}
    \cup {Throw(RawError(MsgCannotFindModule))}

ClassNames == {<<>>, <<"X">>}
Idents == {None, Some(<<>>), Some(<<"a">>)}

Classes ==
    {Value("class", TRUE, <<"X">>, i, FALSE, None) : i \in Idents}
    \cup {Value("class", TRUE, <<"X">>, None, TRUE, None)}
    \cup {Value("class", FALSE, n, None, FALSE, None) : n \in ClassNames}
    \cup {Value("function", TRUE, <<"X">>, None, FALSE,
                Some(Return(Value("object", FALSE, <<>>, None, FALSE, None))))}

Objects == {Value("object", FALSE, <<>>, None, FALSE, None)}

\* the messages of the errors a resolver function may throw
ThrownMessages ==
    {<<"boom">>, ClassConstructorMsg(<<"X">>), ClassConstructorMsg(<<>>),
     <<"in resolver: ">> \o ClassConstructorMsg(<<"X">>),
     ClassConstructorMsg(<<"X", "-", "X">>)}

Resolvers ==
    {Value("function", FALSE, <<"f">>, None, FALSE, Some(Return(v))) :
        v \in Classes \cup Objects}
    \cup {Value("function", FALSE, <<"f">>, None, FALSE,
                Some(Throw(RawError(m)))) : m \in ThrownMessages}

Candidates == Classes \cup Objects \cup Resolvers

Modules ==
    {Return(v) : v \in Candidates} \cup {Throw(RawError(MsgCannotFindModule))}

\* require() of the module is reached only without opts.PluginClass and with
\* a usable path; otherwise what it would do is immaterial
ModulesRead(optsClass, path) ==
    IF optsClass = None /\ ~Falsy(path)
    THEN Modules ELSE {Throw(RawError(MsgCannotFindModule))}

ArgLists == {<<>>, <<"arg">>}

\* The inputs of the compatibility checks: a manifest with a valid name and
\* every combination of the collections below, against every version string
\* the runtime may report for node.
VersionChars == {"1", "2", "-"}
VersionStrings == Strings(VersionChars, MaxVersionLen) \ {<<>>}

CompatKeywords == {None, Some(<<>>), Some(<<"plugin">>)}
CompatKeywordSets ==
    {None, Some(<<<<"other">>, <<"extra">>>>),
     Some(<<<<"other">>, <<"plugin">>>>)}
CompatPlatformSets ==
    {None, Some(<<<<"linux">>>>), Some(<<<<"win32">>, <<"darwin">>>>)}
CompatEngines ==
    {None,
     Some([t \in {"node", "v8"} |->
              IF t = "node" THEN <<">=", "2">> ELSE <<"=", "1">>]),
     Some([t \in {"node", "v8"} |->
              IF t = "node" THEN <<>> ELSE <<">=", "2">>])}
CompatPeerDependencies ==
    {None,
     Some([t \in {"host", "lib", "gone"} |->
              IF t = "lib" THEN <<"=", "1">> ELSE <<">=", "2">>])}
CompatVersionMaps ==
    {<<>>,
     [t \in {"host", "lib"} |-> IF t = "host" THEN <<"2">> ELSE <<"1">>],
     [t \in {"host", "lib"} |->
         IF t = "host" THEN <<"1", "-", "2">> ELSE <<"2">>]}
CompatProcessVersions ==
    {[t \in {"node", "v8"} |-> IF t = "node" THEN n ELSE <<"1">>] :
        n \in VersionStrings}
CompatPackageDatas ==
    {PackageData(Some(<<"a">>),
                 [keywords |-> k, platforms |-> p, engines |-> e,
                  peerDependencies |-> d]) :
        k \in CompatKeywordSets, p \in CompatPlatformSets,
        e \in CompatEngines, d \in CompatPeerDependencies}
CompatPaths == {None, Some(<<"/plugins/p">>)}
CompatClass == Value("class", TRUE, <<"X">>, None, FALSE, None)

----------------------------------------------------------------------------
(* The actions: the constructor, stage by stage, then create() *)

Init ==
    /\ pc = "new"
    /\ log = <<>>
    /\ keyword = None
    /\ prefix = None
    /\ versions = <<>>
    /\ pluginPath = None
    /\ packageData = None
    /\ pluginName = <<>>
    /\ PluginClass = None
    /\ thrown = None
    /\ manifestLoads = <<>>
    /\ moduleLoads = <<>>
    /\ invocations = <<>>
    /\ shapeTests = <<>>
    /\ created = <<>>
    /\ stages = <<>>
    /\ optsPackageData = None
    /\ optsPluginClass = None
    /\ given = None
    /\ platform = None
    /\ processVersions = <<>>
    /\ errors = <<>>
    /\ rangeChecks = <<>>
    /\ constructions = <<>>
    /\ calls = <<>>

\* lines 435-453: take the options, then acquire the metadata
Load(optsKeyword, optsPrefix, optsVersions, optsPath, optsData, manifest) ==
    /\ pc = "new"
    /\ stages' = Append(stages, "load")
    /\ optsPackageData' = optsData
    /\ keyword' = optsKeyword
    /\ prefix' = optsPrefix
    /\ versions' = optsVersions
    /\ pluginPath' = optsPath
    /\ LET r == load(optsData, optsPath, manifest)
       IN  /\ packageData' = r.packageData
           /\ manifestLoads' = manifestLoads \o r.manifestLoads
           /\ thrown' = r.threw
           /\ pc' = IF r.threw = None THEN "loaded" ELSE "failed"
    /\ UNCHANGED <<log, pluginName, PluginClass, moduleLoads, invocations,
                   shapeTests, created, optsPluginClass, given,
                   platform, processVersions, errors, rangeChecks, constructions,
                   calls>>

\* lines 455-460
ValidateNameField ==
    /\ pc = "loaded"
    /\ stages' = Append(stages, "nameField")
    /\ thrown' = validateNameField(packageData[1])
    /\ pc' = IF thrown' = None THEN "validated" ELSE "failed"
    /\ UNCHANGED <<log, keyword, prefix, versions, pluginPath, packageData,
                   pluginName, PluginClass, manifestLoads, moduleLoads,
                   invocations, shapeTests, created, optsPackageData,
                   optsPluginClass, given,
                   platform, processVersions, errors, rangeChecks, constructions,
                   calls>>

\* lines 462-467
Ensure ==
    /\ pc = "validated"
    /\ stages' = Append(stages, "ensure")
    /\ packageData' = Some(ensure(packageData[1]))
    /\ pc' = "ensured"
    /\ UNCHANGED <<log, keyword, prefix, versions, pluginPath, pluginName,
                   PluginClass, thrown, manifestLoads, moduleLoads,
                   invocations, shapeTests, created, optsPackageData,
                   optsPluginClass, given,
                   platform, processVersions, errors, rangeChecks, constructions,
                   calls>>

\* lines 469-487; a variant that goes on to the next stage after a name error
ApplyNameContinues ==
    /\ pc = "ensured"
    /\ stages' = Append(stages, "name")
    /\ LET r == applyName(packageData[1].name[1], prefix)
       IN  /\ pluginName' = r.pluginName
           /\ thrown' = r.threw
           /\ pc' = "named"
    /\ UNCHANGED <<log, keyword, prefix, versions, pluginPath, packageData,
                   PluginClass, manifestLoads, moduleLoads, invocations,
                   shapeTests, created, optsPackageData, optsPluginClass,
                   given,
                   platform, processVersions, errors, rangeChecks, constructions,
                   calls>>

\* lines 469-487
ApplyName ==
    /\ pc = "ensured"
    /\ stages' = Append(stages, "name")
    /\ LET r == applyName(packageData[1].name[1], prefix)
       IN  /\ pluginName' = r.pluginName
           /\ thrown' = r.threw
           /\ pc' = IF r.threw = None THEN "named" ELSE "failed"
    /\ UNCHANGED <<log, keyword, prefix, versions, pluginPath, packageData,
                   PluginClass, manifestLoads, moduleLoads, invocations,
                   shapeTests, created, optsPackageData, optsPluginClass,
                   given,
                   platform, processVersions, errors, rangeChecks, constructions,
                   calls>>

\* the same stage with an explicitly supplied candidate resolved only directly
ResolveRejectsExplicitResolvers(optsClass, module) ==
    /\ pc = "named"
    /\ stages' = Append(stages, "resolve")
    /\ optsPluginClass' = optsClass
    /\ LET c == candidate(optsClass, pluginPath, module)
       IN  /\ moduleLoads' = moduleLoads \o c.moduleLoads
           /\ given' = c.outcome.value
           /\ IF c.outcome.type = "throw"
              THEN /\ thrown' = c.outcome.err
                   /\ pc' = "failed"
                   /\ UNCHANGED <<PluginClass, log, invocations, shapeTests>>
              ELSE LET r == IF optsClass # None
                             THEN resolveRejectsResolvers(c.outcome.value[1],
                                                          pluginPath, pluginName)
                             ELSE resolve(c.outcome.value[1], pluginPath,
                                          pluginName)
                   IN  /\ thrown' = r.threw
                       /\ PluginClass' = r.value
                       /\ log' = log \o r.log
                       /\ invocations' = invocations \o r.invocations
                       /\ shapeTests' = shapeTests \o r.shapeTests
                       /\ pc' = IF r.threw = None THEN "resolved" ELSE "failed"
    /\ UNCHANGED <<keyword, prefix, versions, pluginPath, packageData,
                   pluginName, manifestLoads, created, optsPackageData,
                   platform, processVersions, errors, rangeChecks, constructions,
                   calls>>

\* lines 494-496 and resolve(), lines 513-565
Resolve(optsClass, module) ==
    /\ pc = "named"
    /\ stages' = Append(stages, "resolve")
    /\ optsPluginClass' = optsClass
    /\ LET c == candidate(optsClass, pluginPath, module)
       IN  /\ moduleLoads' = moduleLoads \o c.moduleLoads
           /\ given' = c.outcome.value
           /\ IF c.outcome.type = "throw"
              THEN /\ thrown' = c.outcome.err
                   /\ pc' = "failed"
                   /\ UNCHANGED <<PluginClass, log, invocations, shapeTests>>
              ELSE LET r == resolve(c.outcome.value[1], pluginPath, pluginName)
                   IN  /\ thrown' = r.threw
                       /\ PluginClass' = r.value
                       /\ log' = log \o r.log
                       /\ invocations' = invocations \o r.invocations
                       /\ shapeTests' = shapeTests \o r.shapeTests
                       /\ pc' = IF r.threw = None THEN "resolved" ELSE "failed"
    /\ UNCHANGED <<keyword, prefix, versions, pluginPath, packageData,
                   pluginName, manifestLoads, created, optsPackageData,
                   platform, processVersions, errors, rangeChecks, constructions,
                   calls>>

\* line 499 and validate(), lines 572-614
Validate(envPlatform, envVersions) ==
    /\ pc = "resolved"
    /\ stages' = Append(stages, "validate")
    /\ platform' = Some(envPlatform)
    /\ processVersions' = envVersions
    /\ errors' = violations(packageData[1], keyword, envPlatform, envVersions,
                            versions)
    /\ rangeChecks' = rangeChecksOf(envVersions, packageData[1].engines, "engine")
                        \o rangeChecksOf(versions,
                                         packageData[1].peerDependencies,
                                         "peer dependency")
    /\ thrown' = validate(packageData[1], keyword, envPlatform, envVersions,
                          versions, pluginPath)
    /\ pc' = IF thrown' = None THEN "ready" ELSE "failed"
    /\ UNCHANGED <<log, keyword, prefix, versions, pluginPath, packageData,
                   pluginName, PluginClass, manifestLoads, moduleLoads,
                   invocations, shapeTests, created, optsPackageData,
                   optsPluginClass, given,
                   constructions, calls>>

\* lines 630-654; a variant that keeps the first instance it made
CreateCaches(args) ==
    /\ pc = "ready"
    /\ Len(created) < MaxCreates
    /\ calls' = Append(calls, args)
    /\ IF created # <<>> /\ created[1].type = "return"
       THEN /\ created' = Append(created, created[1])
            /\ UNCHANGED constructions
       ELSE /\ created' = Append(created, create(PluginClass[1], args,
                                                 pluginPath, pluginName))
            /\ constructions' =
                   Append(constructions,
                          Construction(PluginClass[1], args,
                                       New(PluginClass[1], args)))
    /\ UNCHANGED <<pc, log, keyword, prefix, versions, pluginPath, packageData,
                   pluginName, PluginClass, thrown, manifestLoads, moduleLoads,
                   invocations, shapeTests, stages, optsPackageData,
                   optsPluginClass, given,
                   platform, processVersions, errors, rangeChecks>>

\* create(...args) on a constructed loader: lines 630-654
Create(args) ==
    /\ pc = "ready"
    /\ Len(created) < MaxCreates
    /\ calls' = Append(calls, args)
    /\ created' = Append(created,
                         create(PluginClass[1], args, pluginPath, pluginName))
    /\ constructions' = Append(constructions,
                               Construction(PluginClass[1], args,
                                            New(PluginClass[1], args)))
    /\ UNCHANGED <<pc, log, keyword, prefix, versions, pluginPath, packageData,
                   pluginName, PluginClass, thrown, manifestLoads, moduleLoads,
                   invocations, shapeTests, stages, optsPackageData,
                   optsPluginClass, given,
                   platform, processVersions, errors, rangeChecks>>
\* The guard of each stage is repeated before its inputs are drawn.
Next ==
    \/ /\ pc = "new"
       /\ \E k \in Keywords, p \in Prefixes, v \in VersionMaps, path \in Paths,
             d \in {None} \cup {Some(x) : x \in PackageDatas}, m \in Manifests :
               Load(k, p, v, path, d, m)
    \/ ValidateNameField
    \/ Ensure
    \/ ApplyName
    \/ /\ pc = "named"
       /\ \E c \in {None} \cup {Some(x) : x \in Candidates} :
             \E m \in ModulesRead(c, pluginPath) : Resolve(c, m)
    \/ /\ pc = "resolved"
       /\ \E p \in Platforms, v \in ProcessVersions : Validate(p, v)
    \/ /\ pc = "ready"
       /\ \E a \in ArgLists : Create(a)

Spec == Init /\ [][Next]_vars

\* The same program, with inputs chosen for the compatibility checks: the
\* metadata and the implementation are given, the manifest and the module
\* are never read.
NextCompat ==
    \/ /\ pc = "new"
       /\ \E k \in CompatKeywords, v \in CompatVersionMaps,
             path \in CompatPaths, d \in CompatPackageDatas :
               Load(k, None, v, path, Some(d),
                    Throw(RawError(MsgCannotFindModule)))
    \/ ValidateNameField
    \/ Ensure
    \/ ApplyName
    \/ /\ pc = "named"
       /\ Resolve(Some(CompatClass), Throw(RawError(MsgCannotFindModule)))
    \/ /\ pc = "resolved"
       /\ \E p \in Platforms, v \in CompatProcessVersions : Validate(p, v)
    \/ /\ pc = "ready"
       /\ Create(<<>>)

SpecCompat == Init /\ [][NextCompat]_vars

----------------------------------------------------------------------------
(* Vocabulary of the properties *)

Ran(stage) == \E i \in 1..Len(stages) : stages[i] = stage
FailedAt(stage) ==
    pc = "failed" /\ stages # <<>> /\ stages[Len(stages)] = stage

\* s matches ^[a-z0-9]+$
LowerAlnum(s) ==
    s # <<>> /\ \A i \in 1..Len(s) : s[i] \in {"a", "b", "z", "0", "1", "9"}
StartsWith(s, p) == Len(p) <= Len(s) /\ SubSeq(s, 1, Len(p)) = p
RawName == packageData[1].name[1]

\* the message cites s: s occurs in it
Cites(msg, s) == \E i \in 1..(Len(msg) + 1) : OccursAt(msg, s, i)

\* a and b occur in msg without overlapping
CitesBoth(msg, a, b) ==
    \E i, j \in 1..(Len(msg) + 1) :
        /\ OccursAt(msg, a, i)
        /\ OccursAt(msg, b, j)
        /\ i + Len(a) <= j \/ j + Len(b) <= i

IsNameError(e) ==
    \/ Cites(e.message, <<"] must begin with the prefix [">>)
    \/ Cites(e.message,
             <<"] must be alphanumeric to avoid common naming problems.">>)
IsConfigurationError(e) == e.message \in {MsgNoSource, MsgNoName}

\* no stage after the given one ran and nothing was resolved or created
StoppedAt(stage) ==
    /\ FailedAt(stage)
    /\ thrown # None
    /\ PluginClass = None
    /\ created = <<>>

----------------------------------------------------------------------------
(* C1: with a non-empty prefix P and a raw name P + rest where rest matches *)
(* ^[a-z0-9]+$, name derivation succeeds and the derived name is rest.      *)
C1_PrefixStripped ==
    \A rest \in Strings(NameChars, MaxNameLen) :
        (/\ Ran("name")
         /\ ~Falsy(prefix)
         /\ LowerAlnum(rest)
         /\ RawName = prefix[1] \o rest)
        => (~FailedAt("name") /\ pluginName = rest)

C1_Witness ==
    /\ pc = "named"
    /\ prefix = Some(<<"-">>)
    /\ RawName = <<"-", "0">>
    /\ pluginName = <<"0">>

(* C2: with a non-empty prefix that the raw name does not begin with,       *)
(* construction fails with a name error citing the raw name and the prefix, *)
(* and no loader results.                                                   *)
C2_PrefixMismatch ==
    (/\ Ran("name")
     /\ ~Falsy(prefix)
     /\ ~StartsWith(RawName, prefix[1]))
    => (/\ StoppedAt("name")
        /\ IsNameError(thrown[1])
        /\ CitesBoth(thrown[1].message, RawName, prefix[1]))

C2_Witness ==
    /\ FailedAt("name")
    /\ prefix = Some(<<"a">>)
    /\ RawName = <<"-", "a">>

(* C3: a remainder (the raw name after the optional prefix is stripped)     *)
(* that is empty or has a character outside [a-z0-9] fails construction     *)
(* with a name error; a remainder of one or more characters of [a-z0-9]     *)
(* passes the check.                                                        *)
C3_Remainder ==
    (/\ Ran("name")
     /\ Falsy(prefix) \/ StartsWith(RawName, prefix[1]))
    => LET rest == IF Falsy(prefix) THEN RawName
                   ELSE SubSeq(RawName, Len(prefix[1]) + 1, Len(RawName))
       IN  IF LowerAlnum(rest)
           THEN ~FailedAt("name") /\ pluginName = rest
           ELSE StoppedAt("name") /\ IsNameError(thrown[1])

C3_Witness ==
    /\ FailedAt("name")
    /\ Falsy(prefix)
    /\ RawName = <<"a", "A">>

C3_WitnessEmpty ==
    /\ FailedAt("name")
    /\ prefix = Some(<<"a">>)
    /\ RawName = <<"a">>

(* C4: with neither explicit metadata nor a usable plugin location,         *)
(* construction fails with a configuration error before any manifest or     *)
(* module is loaded and before any resolver function is invoked.            *)
C4_NoSource ==
    (Ran("load") /\ optsPackageData = None /\ Falsy(pluginPath))
    => (/\ StoppedAt("load")
        /\ thrown[1].message = MsgNoSource
        /\ manifestLoads = <<>>
        /\ moduleLoads = <<>>
        /\ invocations = <<>>)

C4_Witness ==
    FailedAt("load") /\ optsPackageData = None /\ pluginPath = Some(<<>>)

(* C5: acquired metadata whose name is absent or empty fails construction   *)
(* with a configuration error, whatever the other options.                  *)
C5_NameRequired ==
    (Ran("nameField") /\ Falsy(packageData[1].name))
    => (/\ StoppedAt("nameField")
        /\ thrown[1].message = MsgNoName)

C5_Witness ==
    /\ FailedAt("nameField")
    /\ packageData[1].name = Some(<<>>)
    /\ ~Falsy(prefix)
    /\ ~Falsy(keyword)

C5_WitnessManifest ==
    /\ FailedAt("nameField")
    /\ optsPackageData = None
    /\ packageData[1].name = None


----------------------------------------------------------------------------
(* Vocabulary of the resolution properties *)

\* the one call made to the candidate, and what it did
TheCall == invocations[1]
Raised == TheCall.outcome.err[1]
Returned == TheCall.outcome.value[1]

\* exactly 'Class constructor <name> cannot be invoked without new', <name>
\* one or more word characters
IsClassConstructorError(e) ==
    LET m == e.message
    IN  /\ Len(m) >= 3
        /\ m[1] = "Class constructor "
        /\ m[Len(m)] = " cannot be invoked without 'new'"
        /\ \A k \in 2..(Len(m) - 1) : m[k] \in WordChars

NamesThePlugin(msg) ==
    IF ~Falsy(pluginPath) THEN Cites(msg, pluginPath[1])
    ELSE pluginName # <<>> /\ Cites(msg, pluginName)

(* C6: a candidate that passes the shape test becomes the resolved          *)
(* implementation unchanged, is never invoked during construction, and the  *)
(* indirect path is not tried.                                              *)
C6_DirectFirst ==
    (Ran("resolve") /\ given # None /\ given[1].shape)
    => (/\ ~FailedAt("resolve")
        /\ PluginClass = given
        /\ invocations = <<>>
        /\ shapeTests = <<given[1]>>)

C6_Witness ==
    /\ pc = "ready"
    /\ given # None
    /\ given[1].shape
    /\ given[1].kind = "function"
    /\ PluginClass = given

(* C7: a candidate that fails the shape test is invoked exactly once, with  *)
(* the base type as its sole argument; if what it returns passes the shape  *)
(* test, the returned value is the resolved implementation, construction    *)
(* proceeds and one debug entry noting indirect resolution is logged.       *)
C7_Indirect ==
    (Ran("resolve") /\ given # None /\ ~given[1].shape)
    => (/\ Len(invocations) = 1
        /\ TheCall.fn = given[1]
        /\ TheCall.args = <<BasePlugin>>
        /\ (TheCall.outcome.type = "return" /\ Returned.shape)
            => (/\ ~FailedAt("resolve")
                /\ PluginClass = Some(Returned)
                /\ Len(log) = 1
                /\ log[1].level = "debug"
                /\ Cites(log[1].text, <<"] was resolved indirectly">>)))

C7_Witness ==
    /\ pc = "ready"
    /\ given # None
    /\ given[1].kind = "function"
    /\ ~given[1].shape
    /\ Len(invocations) = 1
    /\ PluginClass = Some(Returned)
    /\ PluginClass # given

(* C8: resolution (direct, then indirect, then fallback) depends on the     *)
(* candidate alone, not on whether it came from opts.PluginClass or from    *)
(* the loaded module: a resolver function supplied explicitly is resolved   *)
(* indirectly.                                                              *)
C8_SameAlgorithm ==
    (Ran("resolve") /\ given # None)
    => LET v == given[1]
           r == Call(v)
       IN  CASE v.shape ->
                    ~FailedAt("resolve") /\ PluginClass = given
             [] ~v.shape /\ r.type = "return" /\ r.value[1].shape ->
                    ~FailedAt("resolve") /\ PluginClass = r.value
             [] ~v.shape /\ r.type = "throw"
                    /\ falseNegativeTest(r.err[1].message) ->
                    ~FailedAt("resolve") /\ PluginClass = given
             [] OTHER -> StoppedAt("resolve")

C8_Witness ==
    /\ pc = "resolved"
    /\ optsPluginClass # None
    /\ given = optsPluginClass
    /\ given[1].kind = "function"
    /\ ~given[1].shape
    /\ PluginClass = Call(given[1]).value

C8_WitnessModule ==
    /\ pc = "resolved"
    /\ optsPluginClass = None
    /\ moduleLoads = <<pluginPath>>
    /\ given[1].kind = "function"
    /\ ~given[1].shape
    /\ PluginClass = Call(given[1]).value

(* C9: when invoking a candidate that failed the shape test raises 'Class   *)
(* constructor <name> cannot be invoked without new', resolution does not   *)
(* fail: the candidate itself is the resolved implementation and exactly    *)
(* two entries are logged, a warning about the false negative and then a    *)
(* debug entry noting the fallback.                                         *)
C9_Fallback ==
    (/\ Ran("resolve")
     /\ given # None
     /\ ~given[1].shape
     /\ invocations # <<>>
     /\ TheCall.outcome.type = "throw"
     /\ IsClassConstructorError(Raised))
    => (/\ ~FailedAt("resolve")
        /\ PluginClass = given
        /\ Len(log) = 2
        /\ log[1].level = "warn"
        /\ Cites(log[1].text, <<"the direct result in question is:\n">>)
        /\ log[2].level = "debug"
        /\ Cites(log[2].text,
                 <<"] was resolved directly, via false negative fallback">>))

C9_Witness ==
    /\ pc = "ready"
    /\ given # None
    /\ given[1].kind = "class"
    /\ ~given[1].shape
    /\ PluginClass = given
    /\ Len(log) = 2

(* C10: when invoking the candidate raises any other error, construction    *)
(* fails with a resolution error ('indirect resolution failed') whose cause *)
(* is the raised error and which names the plugin's location or derived     *)
(* name; no resolved implementation is set.                                 *)
C10_IndirectFailed ==
    (/\ Ran("resolve")
     /\ invocations # <<>>
     /\ TheCall.outcome.type = "throw"
     /\ ~falseNegativeTest(Raised.message))
    => (/\ StoppedAt("resolve")
        /\ Cites(thrown[1].message,
                 <<"The indirect resolution of the PluginClass failed.">>)
        /\ thrown[1].parent = Some(Raised)
        /\ NamesThePlugin(thrown[1].message))

C10_Witness ==
    /\ FailedAt("resolve")
    /\ invocations # <<>>
    /\ TheCall.outcome.type = "throw"
    /\ Raised.message = <<"boom">>
    /\ Falsy(pluginPath)

C10_WitnessAnonymous ==
    /\ FailedAt("resolve")
    /\ given # None
    /\ given[1].kind = "class"
    /\ given[1].cname = <<>>
    /\ ~Falsy(pluginPath)

(* C11: when the resolver function returns normally but the returned value  *)
(* fails the shape test, construction fails with a resolution error ('not   *)
(* detectable as a class') and the returned value is never stored as the    *)
(* resolved implementation.                                                 *)
C11_NotDetectable ==
    (/\ Ran("resolve")
     /\ invocations # <<>>
     /\ TheCall.outcome.type = "return"
     /\ ~Returned.shape)
    => (/\ StoppedAt("resolve")
        /\ Cites(thrown[1].message,
                 <<"The resolved PluginClass was not detectable as a class.">>)
        /\ PluginClass # Some(Returned)
        /\ shapeTests = <<given[1], Returned>>)

C11_Witness ==
    /\ FailedAt("resolve")
    /\ invocations # <<>>
    /\ TheCall.outcome.type = "return"
    /\ Returned.kind = "object"

C11_WitnessFunction ==
    /\ FailedAt("resolve")
    /\ invocations # <<>>
    /\ TheCall.outcome.type = "return"
    /\ Returned.kind = "class"
    /\ ~Returned.shape

----------------------------------------------------------------------------
(* Vocabulary of the compatibility properties *)

\* the metadata validate() reads, and what it recorded of each kind
Declared == packageData[1]
IsKeywordViolation(e) == e.message[1] = "keyword ["
IsPlatformViolation(e) == e.message[1] = "platform ["
IsVersionViolation(e, group) == e.message[1] = group
Recorded(IsKind(_)) == {i \in 1..Len(errors) : IsKind(errors[i])}
IsEngineViolation(e) == IsVersionViolation(e, "engine")
IsPeerViolation(e) == IsVersionViolation(e, "peer dependency")

\* the whole text of the failure: its message and those of its causes
FailureText == stack(thrown[1])

(* C12: a keyword violation is recorded exactly when a keyword requirement  *)
(* is set and the declared keywords do not contain it; it cites the         *)
(* required keyword and the whole declared list; without a requirement no   *)
(* keyword violation is recorded.                                           *)
C12_Keyword ==
    Ran("validate") =>
        LET required == keyword # None /\ keyword[1] # <<>>
            declared == Declared.keywords[1]
            missing == required /\ \A i \in 1..Len(declared) :
                                      declared[i] # keyword[1]
            found == Recorded(IsKeywordViolation)
        IN  /\ missing <=> found # {}
            /\ ~required => found = {}
            /\ Cardinality(found) <= 1
            /\ \A i \in found :
                   /\ CitesBoth(errors[i].message, keyword[1],
                                join(declared, <<", ">>))
                   /\ \A k \in 1..Len(declared) :
                          Cites(errors[i].message, declared[k])

C12_Witness ==
    /\ FailedAt("validate")
    /\ keyword = Some(<<"plugin">>)
    /\ Len(Declared.keywords[1]) = 2
    /\ Recorded(IsKeywordViolation) # {}

C12_WitnessNoRequirement ==
    /\ Ran("validate")
    /\ keyword = Some(<<>>)
    /\ Declared.keywords[1] # <<>>
    /\ errors = <<>>

(* C13: a platform violation is recorded if and only if the declared        *)
(* platforms are non-empty and do not contain the current platform; then    *)
(* construction fails and the text of the failure mentions 'platform'; an   *)
(* empty or defaulted platform list records no violation on any platform.   *)
C13_Platform ==
    Ran("validate") =>
        LET declared == Declared.platforms[1]
            excluded == /\ declared # <<>>
                        /\ \A i \in 1..Len(declared) : declared[i] # platform[1]
            found == Recorded(IsPlatformViolation)
        IN  /\ excluded <=> found # {}
            /\ declared = <<>> => found = {}
            /\ found # {} => /\ FailedAt("validate")
                             /\ thrown # None
                             /\ Cites(thrown[1].message, <<"] is unsupported.">>)
                             /\ Cites(FailureText, <<"platform [">>)
                             /\ Cites(FailureText, platform[1])

C13_Witness ==
    /\ FailedAt("validate")
    /\ Recorded(IsPlatformViolation) # {}
    /\ Len(errors) >= 2
    /\ platform = Some(<<"linux">>)

C13_WitnessDefaulted ==
    /\ Ran("validate")
    /\ optsPackageData[1].platforms = None
    /\ Declared.platforms = Some(<<>>)
    /\ platform = Some(<<"win32">>)
    /\ pc = "ready"

\* a version string with everything from its first '-' onward removed
HasDash(v) == \E i \in 1..Len(v) : v[i] = "-"
FirstDash(v) ==
    CHOOSE i \in 1..Len(v) : v[i] = "-" /\ \A j \in 1..(i - 1) : v[j] # "-"
WithoutFlag(v) == IF HasDash(v) THEN SubSeq(v, 1, FirstDash(v) - 1) ELSE v

\* the components a declared range is compared for: those the actual
\* versions name and for which a non-empty range is declared
Compared(actual, ranges) ==
    {t \in DOMAIN actual \cap DOMAIN ranges : ranges[t] # <<>>}
Unsatisfied(actual, ranges) ==
    {t \in Compared(actual, ranges) :
        ~satisfies(WithoutFlag(actual[t]), ranges[t])}
UnsatisfiedAsCompared(actual, ranges) ==
    {t \in Compared(actual, ranges) :
        ~satisfies(stripFlag(actual[t]), ranges[t])}

(* C14: the number of engine violations recorded equals the number of       *)
(* engines entries whose range is unsatisfied by the actual version (its    *)
(* flag removed), likewise for the peer dependencies, and every violation   *)
(* is reported in the one failure construction throws.                      *)
C14_VersionViolations ==
    Ran("validate") =>
        /\ Cardinality(Recorded(IsEngineViolation))
              = Cardinality(Unsatisfied(processVersions, Declared.engines[1]))
        /\ Cardinality(Recorded(IsPeerViolation))
              = Cardinality(Unsatisfied(versions,
                                        Declared.peerDependencies[1]))
        /\ errors # <<>> =>
              /\ FailedAt("validate")
              /\ \A i \in 1..Len(errors) :
                     Cites(FailureText, errors[i].message)

\* the same count, with the version as checkVersions compares it
VersionViolationsAsCompared ==
    Ran("validate") =>
        /\ Cardinality(Recorded(IsEngineViolation))
              = Cardinality(UnsatisfiedAsCompared(processVersions,
                                                  Declared.engines[1]))
        /\ Cardinality(Recorded(IsPeerViolation))
              = Cardinality(UnsatisfiedAsCompared(versions,
                                        Declared.peerDependencies[1]))
        /\ errors # <<>> =>
              /\ FailedAt("validate")
              /\ \A i \in 1..Len(errors) :
                     Cites(FailureText, errors[i].message)

(* C15: the version handed to the range check is the actual version string  *)
(* with everything from its first '-' onward removed, wherever the '-' is,  *)
(* and the string itself when it has no '-'.                                *)
C15_FlagStripped ==
    \A i \in 1..Len(rangeChecks) :
        rangeChecks[i].version = WithoutFlag(rangeChecks[i].actual)

\* what holds instead: a '-' that ends the string is kept
FlagStrippedUnlessLast ==
    \A i \in 1..Len(rangeChecks) :
        LET v == rangeChecks[i].actual
        IN  rangeChecks[i].version =
                IF HasDash(v) /\ FirstDash(v) < Len(v)
                THEN SubSeq(v, 1, FirstDash(v) - 1) ELSE v

(* C16: validation evaluates all four policies; nothing is thrown when no   *)
(* violation was recorded; with one violation the cause of the failure is   *)
(* that violation; with two or more the cause is one error whose message is *)
(* the text of every violation, in the order keyword, platform, engines,    *)
(* peer dependencies, joined by newlines.                                   *)
Rank(e) ==
    CASE IsKeywordViolation(e) -> 1
      [] IsPlatformViolation(e) -> 2
      [] IsEngineViolation(e) -> 3
      [] OTHER -> 4
C16_Aggregated ==
    Ran("validate") =>
        /\ \A i, j \in 1..Len(errors) : i < j => Rank(errors[i]) <= Rank(errors[j])
        /\ Len(errors) =
              Cardinality(Recorded(IsKeywordViolation))
              + Cardinality(Recorded(IsPlatformViolation))
              + Cardinality(UnsatisfiedAsCompared(processVersions,
                                                  Declared.engines[1]))
              + Cardinality(UnsatisfiedAsCompared(versions,
                                        Declared.peerDependencies[1]))
        /\ errors = <<>> => pc = "ready" /\ thrown = None
        /\ errors # <<>> => FailedAt("validate") /\ thrown # None
        /\ Len(errors) = 1 => thrown[1].parent = Some(errors[1])
        /\ Len(errors) >= 2 =>
              /\ thrown[1].parent # None
              /\ thrown[1].parent[1].parent = None
              /\ thrown[1].parent[1].message = join(stacks(errors), <<"\n">>)

C16_Witness ==
    /\ FailedAt("validate")
    /\ Len(errors) >= 4
    /\ Recorded(IsKeywordViolation) # {}
    /\ Recorded(IsPlatformViolation) # {}
    /\ Recorded(IsEngineViolation) # {}
    /\ Recorded(IsPeerViolation) # {}

C16_WitnessOne ==
    /\ FailedAt("validate")
    /\ Len(errors) = 1
    /\ Recorded(IsEngineViolation) # {}

C16_WitnessNone ==
    /\ Ran("validate")
    /\ errors = <<>>
    /\ keyword = Some(<<"plugin">>)
    /\ Declared.platforms[1] # <<>>
    /\ rangeChecks # <<>>

(* C17: when validation fails, the message of the failure names the plugin  *)
(* by its location when one was supplied and by its name when none was; it  *)
(* never names an absent value.                                             *)
C17_NamesThePlugin ==
    FailedAt("validate") =>
        /\ NamesThePlugin(thrown[1].message)
        /\ ~Cites(thrown[1].message, <<"undefined">>)

\* what holds instead: the message renders the location, supplied or not
UnsupportedRendersLocation ==
    FailedAt("validate") =>
        thrown[1].message
            = <<"Plugin [">> \o Render(pluginPath) \o <<"] is unsupported.">>

----------------------------------------------------------------------------
(* Vocabulary of the instantiation properties *)

\* the i-th call of create(): what the constructor did and what the caller got
Constructed(i) == constructions[i].outcome
Got(i) == created[i]
Failure(i) == created[i].err[1]
Identity(i) == Constructed(i).value[1].name
Mismatch(i) ==
    /\ Constructed(i).type = "return"
    /\ Identity(i) # None
    /\ Identity(i)[1] # <<>>
    /\ Identity(i)[1] # pluginName
IsInstantiationFailure(e) == Cites(e.message, <<"] failed to instantiate.">>)

(* C18: create() fails if and only if the constructor throws or the         *)
(* instance has a non-empty name other than the derived plugin name; on a   *)
(* mismatch the failure cites the instance's name and the derived name      *)
(* ('must match the specified name of'); an instance whose name is unset,   *)
(* empty or equal to the derived name is returned; the mismatch is found by *)
(* create(), after the resolver was constructed.                            *)
C18_CreateFails ==
    \A i \in 1..Len(created) :
        /\ Got(i).type = "throw" <=> (Constructed(i).type = "throw" \/ Mismatch(i))
        /\ Mismatch(i) =>
              /\ Cites(stack(Failure(i)),
                       <<"] must match the specified name of [">>)
              /\ Failure(i).parent # None
              /\ CitesBoth(Failure(i).parent[1].message, Identity(i)[1],
                           pluginName)
        /\ Got(i).type = "return" => Got(i).value = Constructed(i).value
        /\ pc = "ready" /\ thrown = None /\ PluginClass # None

C18_Witness ==
    /\ created # <<>>
    /\ Got(1).type = "throw"
    /\ Mismatch(1)
    /\ Identity(1) = Some(<<"a">>)
    /\ pluginName = <<"0">>

C18_WitnessReturned ==
    /\ Len(created) = 2
    /\ Got(1).type = "return"
    /\ Got(2).type = "return"
    /\ Identity(1) \in {Some(<<>>), Some(pluginName)}

(* C19: every error raised inside create(), by the constructor or by the    *)
(* name check, reaches the caller as the cause of one instantiation failure *)
(* whose message names the plugin's location, or its derived name when      *)
(* there is no location; the constructor's error never escapes as it is.    *)
C19_Wrapped ==
    \A i \in 1..Len(created) :
        Got(i).type = "throw" =>
            /\ IsInstantiationFailure(Failure(i))
            /\ NamesThePlugin(Failure(i).message)
            /\ Failure(i).parent # None
            /\ ~IsInstantiationFailure(Failure(i).parent[1])
            /\ Constructed(i).type = "throw" =>
                  /\ Failure(i).parent = Constructed(i).err
                  /\ Got(i) # Constructed(i)
            /\ Constructed(i).type = "return" =>
                  /\ Failure(i).parent[1].parent = None
                  /\ Cites(Failure(i).parent[1].message,
                           <<"] must match the specified name of [">>)

C19_Witness ==
    /\ created # <<>>
    /\ Got(1).type = "throw"
    /\ Constructed(1).type = "throw"
    /\ Constructed(1).err[1].message = MsgCtorFailed
    /\ Falsy(pluginPath)

C19_WitnessLocated ==
    /\ created # <<>>
    /\ Got(1).type = "throw"
    /\ Mismatch(1)
    /\ ~Falsy(pluginPath)

(* C20: a call of create(), whether it succeeds or fails, leaves the        *)
(* derived name, the resolved implementation, the metadata and the          *)
(* configuration as they were, and invokes the resolved implementation's    *)
(* constructor once more, with the arguments of that call, returning the    *)
(* instance that construction made.                                         *)
C20_CreateFrame ==
    [][created' # created =>
        /\ UNCHANGED <<pluginName, PluginClass, packageData, keyword, prefix,
                       versions, pluginPath, pc, thrown>>
        /\ Len(created') = Len(created) + 1
        /\ Len(calls') = Len(calls) + 1
        /\ SubSeq(created', 1, Len(created)) = created
        /\ Len(constructions') = Len(constructions) + 1
        /\ SubSeq(constructions', 1, Len(constructions)) = constructions
        /\ LET n == Len(created')
               built == constructions'[n]
           IN  /\ built.class = PluginClass[1]
               /\ built.args = calls'[n]
               /\ created'[n].type = "return" =>
                     /\ built.outcome.type = "return"
                     /\ created'[n].value = built.outcome.value
                     /\ created'[n].value[1].args = calls'[n]]_vars

C20_Witness ==
    /\ Len(created) = 2
    /\ Got(1).type = "throw"
    /\ Got(2).type = "return"
    /\ calls = <<<<>>, <<"arg">>>>
    /\ Got(2).value[1].args = <<"arg">>

C20_WitnessAgain ==
    /\ Len(created) = 2
    /\ Got(1).type = "return"
    /\ Got(2).type = "return"
    /\ calls[1] # calls[2]

----------------------------------------------------------------------------
(* Vocabulary of the properties of construction as a whole *)

\* create() can be called: the constructor returned a resolver
Usable == pc = "ready"
StageOrder == <<"load", "nameField", "ensure", "name", "resolve", "validate">>
IsPrefixOf(a, b) == Len(a) <= Len(b) /\ SubSeq(b, 1, Len(a)) = a

\* the message holds 'Class constructor <name> cannot be invoked without
\* 'new'', <name> one or more word characters
HasClassConstructorText(m) ==
    \E i \in 1..Len(m) : \E j \in (i + 2)..Len(m) :
        /\ m[i] = "Class constructor "
        /\ m[j] = " cannot be invoked without 'new'"
        /\ \A k \in (i + 1)..(j - 1) : m[k] \in WordChars
AdoptedByFallback ==
    /\ PluginClass = given
    /\ invocations # <<>>
    /\ TheCall.outcome.type = "throw"
    /\ HasClassConstructorText(Raised.message)

(* C21: every resolver on which create() can be called has metadata with a *)
(* non-empty name and the four collections present, a derived name matching *)
(* ^[a-z0-9]+$, a resolved implementation that passed the shape test or was *)
(* adopted by the false-negative fallback, and no compatibility violation;  *)
(* when a stage fails the constructor throws and create() is never called.  *)
C21_AllOrNothing ==
    /\ Usable =>
          /\ stages = StageOrder
          /\ thrown = None
          /\ packageData # None
          /\ Declared.name # None /\ Declared.name[1] # <<>>
          /\ Declared.keywords # None
          /\ Declared.platforms # None
          /\ Declared.engines # None
          /\ Declared.peerDependencies # None
          /\ LowerAlnum(pluginName)
          /\ PluginClass # None
          /\ PluginClass[1].shape \/ AdoptedByFallback
          /\ errors = <<>>
          /\ Unsatisfied(processVersions, Declared.engines[1]) = {}
          /\ Unsatisfied(versions, Declared.peerDependencies[1]) = {}
    /\ ~Usable => created = <<>> /\ calls = <<>>
    /\ pc = "failed" <=> thrown # None

C21_Witness ==
    /\ Usable
    /\ optsPackageData # None
    /\ optsPackageData[1].keywords = None
    /\ AdoptedByFallback
    /\ created # <<>>

C21_WitnessFailed ==
    /\ FailedAt("validate")
    /\ PluginClass # None
    /\ errors # <<>>

\* the message includes the plugin's location or its derived name
IncludesLocationOrName(msg) ==
    \/ ~Falsy(pluginPath) /\ Cites(msg, pluginPath[1])
    \/ pluginName # <<>> /\ Cites(msg, pluginName)

(* C22: every failure raised by construction or by create(), of every kind, *)
(* carries a message that includes the plugin's location or its derived     *)
(* name.                                                                    *)
C22_EveryFailureNamesThePlugin ==
    /\ pc = "failed" => IncludesLocationOrName(thrown[1].message)
    /\ \A i \in 1..Len(created) :
          Got(i).type = "throw" => IncludesLocationOrName(Failure(i).message)

(* C22, as it holds: the failures raised by class resolution and by         *)
(* create() include the location, or the derived name when there is no      *)
(* location; a name error cites the name it rejected; a validation failure  *)
(* shows the location, which reads 'undefined' when none was supplied; the  *)
(* two configuration errors name no plugin.                                 *)
C22_FailuresThatNameThePlugin ==
    /\ (FailedAt("resolve") /\ given # None) =>
          NamesThePlugin(thrown[1].message)
    /\ \A i \in 1..Len(created) :
          Got(i).type = "throw" => NamesThePlugin(Failure(i).message)
    /\ FailedAt("name") =>
          /\ IsNameError(thrown[1])
          /\ Len(thrown[1].message) >= 2
          /\ SubSeq(thrown[1].message, 2, Len(pluginName) + 1) = pluginName
    /\ FailedAt("validate") =>
          thrown[1].message =
              <<"Plugin [">>
                  \o (IF pluginPath = None THEN <<"undefined">>
                      ELSE pluginPath[1])
                  \o <<"] is unsupported.">>
    /\ FailedAt("nameField") =>
          /\ IsConfigurationError(thrown[1])
          /\ thrown[1].parent = None
          /\ ~Falsy(pluginPath) => ~Cites(thrown[1].message, pluginPath[1])
    /\ (FailedAt("load") /\ Falsy(pluginPath)) =>
          /\ IsConfigurationError(thrown[1])
          /\ thrown[1].parent = None

C22_Witness ==
    /\ created # <<>>
    /\ Got(1).type = "throw"
    /\ Falsy(pluginPath)
    /\ Cites(Failure(1).message, pluginName)

C22_WitnessUnnamed ==
    /\ FailedAt("nameField")
    /\ ~Falsy(pluginPath)
    /\ manifestLoads # <<>>

C22_WitnessValidation ==
    /\ FailedAt("validate")
    /\ pluginPath = None
    /\ Cites(thrown[1].message, <<"undefined">>)

\* the raw name does not yield a valid derived name
Remainder ==
    IF Falsy(prefix) THEN RawName
    ELSE SubSeq(RawName, Len(prefix[1]) + 1, Len(RawName))
NameInvalid ==
    \/ ~Falsy(prefix) /\ ~StartsWith(RawName, prefix[1])
    \/ ~LowerAlnum(Remainder)

(* C23: construction runs metadata acquisition, the name-field check, name  *)
(* derivation, class resolution and compatibility validation in that order  *)
(* and stops at the first stage that fails: with an invalid name the name   *)
(* error is the failure reported, the module is not loaded and no resolver  *)
(* function is invoked; the compatibility policies are evaluated only after *)
(* class resolution succeeded, so the module and the resolver function of   *)
(* an incompatible plugin have run when the validation failure is raised.   *)
C23_StageOrder ==
    /\ IsPrefixOf(stages, StageOrder)
    /\ pc = "failed" => stages # <<>> /\ thrown # None
    /\ (Ran("nameField") /\ Falsy(packageData[1].name)) =>
          /\ FailedAt("nameField")
          /\ IsConfigurationError(thrown[1])
    /\ (Ran("name") /\ NameInvalid) =>
          /\ FailedAt("name")
          /\ IsNameError(thrown[1])
          /\ moduleLoads = <<>>
          /\ invocations = <<>>
          /\ shapeTests = <<>>
          /\ PluginClass = None
    /\ ~Ran("validate") =>
          /\ errors = <<>>
          /\ rangeChecks = <<>>
          /\ platform = None
    /\ Ran("validate") =>
          /\ PluginClass # None
          /\ optsPluginClass = None => moduleLoads = <<pluginPath>>
          /\ (given # None /\ ~given[1].shape) => Len(invocations) = 1

C23_Witness ==
    /\ FailedAt("name")
    /\ NameInvalid
    /\ keyword # None
    /\ Declared.keywords = Some(<<>>)
    /\ pluginPath = None

C23_WitnessIncompatible ==
    /\ FailedAt("validate")
    /\ moduleLoads # <<>>
    /\ invocations # <<>>

C24_WitnessClass ==
    /\ Usable
    /\ PluginClass = given
    /\ PluginClass[1].kind = "class"
    /\ ~PluginClass[1].shape

\* the component a version violation is about
Component(e) == e.message[3]

(* C25: a version violation for a component is recorded only if the actual  *)
(* version map holds that component (the runtime's versions for engines,    *)
(* the supplied versions for peer dependencies) and the metadata declares a *)
(* range for it; a plugin that declares a peer dependency for which no      *)
(* version was supplied is accepted.                                        *)
C25_OnlyPresentComponents ==
    Ran("validate") =>
        /\ \A i \in Recorded(IsEngineViolation) :
              /\ Component(errors[i]) \in DOMAIN processVersions
              /\ Component(errors[i]) \in DOMAIN Declared.engines[1]
        /\ \A i \in Recorded(IsPeerViolation) :
              /\ Component(errors[i]) \in DOMAIN versions
              /\ Component(errors[i]) \in DOMAIN Declared.peerDependencies[1]
        /\ \A i \in 1..Len(rangeChecks) :
              rangeChecks[i].thing \in DOMAIN processVersions \cup DOMAIN versions
        /\ versions = <<>> => Recorded(IsPeerViolation) = {}
        /\ (versions = <<>> /\ Recorded(IsKeywordViolation) = {}
              /\ Recorded(IsPlatformViolation) = {}
              /\ Recorded(IsEngineViolation) = {}) => Usable

C25_Witness ==
    /\ Usable
    /\ versions = <<>>
    /\ "gone" \in DOMAIN Declared.peerDependencies[1]
    /\ "host" \in DOMAIN Declared.peerDependencies[1]

C25_WitnessPartly ==
    /\ FailedAt("validate")
    /\ Recorded(IsPeerViolation) # {}
    /\ "gone" \in DOMAIN Declared.peerDependencies[1]
    /\ "gone" \notin DOMAIN versions

(* C26: create() never writes to the instance it constructed: an instance   *)
(* that exposes no name is returned with its name still unset, the derived  *)
(* name is not assigned to it, and no error is raised.                      *)
C26_InstanceUntouched ==
    \A i \in 1..Len(created) :
        Constructed(i).type = "return" =>
            /\ Got(i).type = "return" => Got(i).value[1] = Constructed(i).value[1]
            /\ Identity(i) = None =>
                  /\ Got(i).type = "return"
                  /\ Got(i).value[1].name = None
            /\ Identity(i) = Some(<<>>) =>
                  /\ Got(i).type = "return"
                  /\ Got(i).value[1].name = Some(<<>>)

C26_Witness ==
    /\ created # <<>>
    /\ Constructed(1).type = "return"
    /\ Identity(1) = None
    /\ Got(1).type = "return"
    /\ pluginName # <<>>

C26_WitnessEmpty ==
    /\ created # <<>>
    /\ Constructed(1).type = "return"
    /\ Identity(1) = Some(<<>>)

\* the metadata as the caller supplied it, with the absent collections
\* defaulted or not
SuppliedOrDefaulted ==
    \/ packageData = optsPackageData
    \/ /\ packageData[1].name = optsPackageData[1].name
       /\ \A f \in {"keywords", "platforms", "engines", "peerDependencies"} :
             IF optsPackageData[1][f] = None
             THEN packageData[1][f] = Some(<<>>)
             ELSE packageData[1][f] = optsPackageData[1][f]

(* C27: explicit metadata, when supplied, is the metadata used and the      *)
(* manifest loader is never invoked, even with a location supplied as well; *)
(* with an explicit implementation the module loader is never invoked; the  *)
(* manifest loader is invoked at most once, and only with the location      *)
(* joined with 'package.json'.                                              *)
C27_LoadersBypassed ==
    /\ optsPackageData # None =>
          /\ manifestLoads = <<>>
          /\ SuppliedOrDefaulted
    /\ optsPluginClass # None =>
          /\ moduleLoads = <<>>
          /\ given = optsPluginClass
    /\ Len(manifestLoads) <= 1
    /\ \A i \in 1..Len(manifestLoads) :
          /\ ~Falsy(pluginPath)
          /\ manifestLoads[i] = pluginPath[1] \o <<"/package.json">>
    /\ Len(moduleLoads) <= 1

C27_Witness ==
    /\ Usable
    /\ optsPackageData # None
    /\ ~Falsy(pluginPath)
    /\ optsPluginClass # None
    /\ created # <<>>

C27_WitnessManifest ==
    /\ Usable
    /\ manifestLoads # <<>>
    /\ moduleLoads # <<>>

(* C28: the module loader is only ever invoked with a present, non-empty    *)
(* path: a configuration with explicit metadata but neither an explicit     *)
(* implementation nor a location is rejected without calling the module     *)
(* loader with an absent path.                                              *)
C28_ModulePathPresent ==
    \A i \in 1..Len(moduleLoads) :
        moduleLoads[i] # None /\ moduleLoads[i][1] # <<>>

\* what holds instead: such a configuration is rejected by the module loader
\* itself, called with the absent path
AbsentPathReachesModuleLoader ==
    (/\ Ran("resolve")
     /\ optsPluginClass = None
     /\ Falsy(pluginPath))
    => (/\ FailedAt("resolve")
        /\ optsPackageData # None
        /\ moduleLoads = <<pluginPath>>
        /\ thrown = Some(RawError(MsgRequireArg))
        /\ invocations = <<>>)

(* C29: construction changes the metadata object the caller supplied only   *)
(* by adding empty containers for its absent optional fields, leaving the   *)
(* present fields and the raw name as supplied; when construction fails, at *)
(* any stage, the object is left exactly as it was supplied.  The loader    *)
(* holds the caller's object itself, so packageData is that object.         *)
C29_MetadataFrame ==
    optsPackageData # None =>
        /\ SuppliedOrDefaulted
        /\ pc = "failed" => packageData = optsPackageData

(* C29, as it holds: the object changes only by the added empty containers; *)
(* it is as supplied until the defaults are added, so a failure of the      *)
(* name-field check leaves it untouched, and it carries the defaults from   *)
(* then on, also when a later stage fails.                                  *)
C29_MetadataDefaulted ==
    optsPackageData # None =>
        /\ SuppliedOrDefaulted
        /\ ~Ran("ensure") => packageData = optsPackageData
        /\ FailedAt("nameField") => packageData = optsPackageData
        /\ Ran("ensure") =>
              \A f \in {"keywords", "platforms", "engines", "peerDependencies"} :
                  /\ packageData[1][f] # None
                  /\ optsPackageData[1][f] = None =>
                        packageData[1][f] = Some(<<>>)

C29_Witness ==
    /\ FailedAt("name")
    /\ optsPackageData # None
    /\ optsPackageData[1].keywords = None
    /\ packageData[1].keywords = Some(<<>>)

C29_WitnessUntouched ==
    /\ FailedAt("nameField")
    /\ optsPackageData # None
    /\ optsPackageData[1].keywords = None

C29_WitnessPresent ==
    /\ Usable
    /\ optsPackageData # None
    /\ optsPackageData[1].keywords # None
    /\ optsPackageData[1].keywords # Some(<<>>)

\* the version violations recorded, and the range checks that failed, in
\* order: the k-th violation is about the k-th failed check
IsAnyVersionViolation(e) == IsEngineViolation(e) \/ IsPeerViolation(e)
CheckFailed(c) == ~satisfies(c.version, c.range)
VersionViolations == SelectSeq(errors, IsAnyVersionViolation)
FailedChecks == SelectSeq(rangeChecks, CheckFailed)

\* the text of a violation about check c that shows v as the version found
Shown(c, v) ==
    <<c.group, " [", c.thing, " = ">> \o v
        \o <<"] unsupported by plugin's range [">> \o c.range \o <<"]">>

(* C30: each version violation identifies the policy group, the component,  *)
(* the actual version found in the environment and the range the plugin     *)
(* requires: the two values shown are the two that were compared.           *)
C30_ViolationShowsActual ==
    /\ Len(VersionViolations) = Len(FailedChecks)
    /\ \A k \in 1..Len(VersionViolations) :
          \/ VersionViolations[k].message
                = Shown(FailedChecks[k], FailedChecks[k].actual)
          \/ VersionViolations[k].message
                = Shown(FailedChecks[k], FailedChecks[k].version)

\* what holds instead: the range is shown in both places
ViolationShowsRangeTwice ==
    /\ Len(VersionViolations) = Len(FailedChecks)
    /\ \A k \in 1..Len(VersionViolations) :
          VersionViolations[k].message
              = Shown(FailedChecks[k], FailedChecks[k].range)

====
